---- MODULE Spec2Model ----
(***************************************************************************)
(* Unraid Management Agent - Home Assistant integration.                   *)
(*                                                                         *)
(* A model of the real-time event client (websocket_client.py) and of the  *)
(* coordinator that owns it (__init__.py):                                 *)
(*   - identify_event_type, the structural classifier of payloads;         *)
(*   - UnraidWebSocketClient: connect / listen / _handle_message /         *)
(*     _reconnect / disconnect, one atomic action per stretch of code      *)
(*     between two await points of the asyncio task;                       *)
(*   - UnraidDataUpdateCoordinator: async_start_websocket,                 *)
(*     async_stop_websocket and the delivery callback                      *)
(*     _handle_websocket_event.                                            *)
(*                                                                         *)
(* The specifications share the variables:                                 *)
(*   SpecClassify    the classifier applied to one payload of a bounded    *)
(*                   set;                                                  *)
(*   Spec            the coordinator and its clients against a free        *)
(*                   transport, start and stop called at any moment;       *)
(*   SpecCalls       the same with one caller of start and stop;           *)
(*   SpecScheduled   a started coordinator, stop called at any moment,     *)
(*                   with the event loop's scheduling as fairness;         *)
(*   SpecClient      one client against a free transport, disconnect()     *)
(*                   called at any await point of listen();                *)
(*   SpecClientTimed the same, with the event loop's timers as fairness;   *)
(*   SpecReuse       one client whose holder calls listen() and connect()  *)
(*                   again after disconnect();                             *)
(*   SpecReconnect   one client that starts with any retry count;          *)
(*   SpecServerCloses one client whose connects all succeed and whose      *)
(*                   connections the server closes;                        *)
(*   SpecMock        one client against a scripted (mock) transport;       *)
(*   SpecCallback    the same with a delivery callback that raises;        *)
(*   SpecPoll        the coordinator's poll refreshes, any fetches         *)
(*                   failing;                                              *)
(*   SpecEvents      the coordinator's delivery callback, invoked with     *)
(*                   events of every kind.                                 *)
(***************************************************************************)
EXTENDS Naturals, Sequences, FiniteSets

VARIABLES
    payload,            \* SpecClassify: the argument of identify_event_type
    event_type,         \* SpecClassify: its result ("" before the call)
    enable_websocket,   \* UnraidDataUpdateCoordinator.enable_websocket
    websocket_task,     \* UnraidDataUpdateCoordinator.websocket_task (0: None)
    data,               \* UnraidDataUpdateCoordinator.data (the cache)
    notifications,      \* number of async_set_updated_data calls made
    pc,                 \* per task: the await point the listen() task is at
    cancel_req,         \* per task: Task.cancel() was called, not yet delivered
    _ws,                \* per client: UnraidWebSocketClient._ws (0: None)
    _connected,         \* per client: UnraidWebSocketClient._connected
    _reconnect_count,   \* per client: UnraidWebSocketClient._reconnect_count
    _stop_requested,    \* per client: UnraidWebSocketClient._stop_requested
    socks,              \* the connections ws_connect has returned, in order
    stop_pc,            \* per async_stop_websocket call: the task it awaits
    mock,               \* the transport: free, or a script of its answers
    nFails,             \* connect failures the transport has produced
    delivered,          \* the calls of the delivery callback, in order
    disconnected,       \* per client: disconnect() has been called
    recalled,           \* per client: listen() or connect() was called again
    delay,              \* per task: the delay of the asyncio.sleep it is in (0: none)
    refresh,            \* the coordinator's last poll refresh and how it ended
    misuse              \* the calls made so far that had nothing to do

(* Everything but the record of the calls that had nothing to do.          *)
progVars == << payload, event_type, enable_websocket, websocket_task, data,
               notifications, pc, cancel_req, _ws, _connected, _reconnect_count,
               _stop_requested, socks, stop_pc, mock, nFails, delivered,
               disconnected, recalled, delay, refresh >>

vars == << progVars, misuse >>

clientVars == << _ws, _connected, _reconnect_count, _stop_requested >>
coordVars  == << enable_websocket, websocket_task, data, notifications >>
classifyVars == << payload, event_type >>

-----------------------------------------------------------------------------
(* Bounds of the model.                                                    *)

MaxParts == 2           \* key groups united into one record payload
MaxListLen == 2         \* elements of a list payload
MaxTasks == 2           \* listen() tasks (and clients) ever created
MaxStops == 1           \* concurrent async_stop_websocket calls
MaxSocks == 1           \* connections the free transport accepts
MaxFails == 1           \* connect failures the free transport produces
MaxClientSocks == 2     \* the same two, of the transport of SpecClient
MaxClientFails == 11
MaxDelivered == 1       \* callback invocations recorded
MaxScriptFails == 3     \* leading connect failures of a two-connection script
MaxReuseSocks == 2      \* connections and connect failures of the transport
MaxReuseFails == 2      \* of SpecReuse
MaxCount == 12          \* retry counter values _reconnect is applied to
MaxReconnectFails == 2  \* connect failures of the transport of SpecReconnect
MaxServerCloses == 12   \* connections of the transport of SpecServerCloses
MaxEvents == 2          \* callback invocations of SpecEvents

-----------------------------------------------------------------------------
(* Program constants (const.py).                                           *)

WEBSOCKET_RECONNECT_DELAY == << 1, 2, 4, 8, 16, 32, 60 >>
WEBSOCKET_MAX_RETRIES == 10

EVENT_SYSTEM_UPDATE == "system_update"
EVENT_ARRAY_STATUS_UPDATE == "array_status_update"
EVENT_DISK_LIST_UPDATE == "disk_list_update"
EVENT_SHARE_LIST_UPDATE == "share_list_update"
EVENT_CONTAINER_LIST_UPDATE == "container_list_update"
EVENT_VM_LIST_UPDATE == "vm_list_update"
EVENT_UPS_STATUS_UPDATE == "ups_status_update"
EVENT_GPU_UPDATE == "gpu_update"
EVENT_NETWORK_LIST_UPDATE == "network_list_update"

KEY_SYSTEM == "system"
KEY_ARRAY == "array"
KEY_DISKS == "disks"
KEY_CONTAINERS == "containers"
KEY_VMS == "vms"
KEY_UPS == "ups"
KEY_GPU == "gpu"
KEY_NETWORK == "network"

-----------------------------------------------------------------------------
(* Payloads: the untyped values json.loads produces.  A record (dict) is   *)
(* its key set (the classifier reads nothing else), a list is the sequence *)
(* of its elements, anything else is a scalar.                             *)

Dict(keys) == [tag |-> "dict", keys |-> keys, elems |-> << >>]
List(elems) == [tag |-> "list", keys |-> {}, elems |-> elems]
Scalar == [tag |-> "scalar", keys |-> {}, elems |-> << >>]
None == [tag |-> "none", keys |-> {}, elems |-> << >>]
Number == [tag |-> "int", keys |-> {}, elems |-> << >>]
String == [tag |-> "str", keys |-> {}, elems |-> << >>]
Boolean == [tag |-> "bool", keys |-> {}, elems |-> << >>]

isinstance_list(d) == d.tag = "list"
isinstance_dict(d) == d.tag = "dict"

(* identify_event_type with the array-status and VM tests exchanged.       *)
identify_event_type_vm_first(d0) ==
    IF isinstance_list(d0) /\ d0.elems = << >> THEN "empty_list"
    ELSE LET d == IF isinstance_list(d0) THEN d0.elems[1] ELSE d0 IN
      IF ~isinstance_dict(d) THEN "unknown"
      ELSE IF "hostname" \in d.keys /\ "cpu_usage_percent" \in d.keys
        THEN EVENT_SYSTEM_UPDATE
      ELSE IF "state" \in d.keys /\ "vcpus" \in d.keys
        THEN EVENT_VM_LIST_UPDATE
      ELSE IF "state" \in d.keys /\ "parity_check_status" \in d.keys
              /\ "num_disks" \in d.keys
        THEN EVENT_ARRAY_STATUS_UPDATE
      ELSE IF "connected" \in d.keys /\ "battery_charge_percent" \in d.keys
        THEN EVENT_UPS_STATUS_UPDATE
      ELSE IF "available" \in d.keys /\ "driver_version" \in d.keys
              /\ "utilization_gpu_percent" \in d.keys
        THEN EVENT_GPU_UPDATE
      ELSE IF "mac_address" \in d.keys /\ "bytes_received" \in d.keys
        THEN EVENT_NETWORK_LIST_UPDATE
      ELSE IF "image" \in d.keys /\ "ports" \in d.keys
              /\ ("id" \in d.keys \/ "container_id" \in d.keys)
        THEN EVENT_CONTAINER_LIST_UPDATE
      ELSE IF "device" \in d.keys /\ "mount_point" \in d.keys
        THEN EVENT_DISK_LIST_UPDATE
      ELSE IF "name" \in d.keys /\ "path" \in d.keys /\ "size_bytes" \in d.keys
        THEN EVENT_SHARE_LIST_UPDATE
      ELSE "unknown"

(* identify_event_type that names what is not a dict by its type.          *)
identify_event_type_type_name(d0) ==
    IF isinstance_list(d0) /\ d0.elems = << >> THEN "empty_list"
    ELSE LET d == IF isinstance_list(d0) THEN d0.elems[1] ELSE d0 IN
      IF ~isinstance_dict(d) THEN d.tag
      ELSE IF "hostname" \in d.keys /\ "cpu_usage_percent" \in d.keys
        THEN EVENT_SYSTEM_UPDATE
      ELSE IF "state" \in d.keys /\ "parity_check_status" \in d.keys
              /\ "num_disks" \in d.keys
        THEN EVENT_ARRAY_STATUS_UPDATE
      ELSE IF "connected" \in d.keys /\ "battery_charge_percent" \in d.keys
        THEN EVENT_UPS_STATUS_UPDATE
      ELSE IF "available" \in d.keys /\ "driver_version" \in d.keys
              /\ "utilization_gpu_percent" \in d.keys
        THEN EVENT_GPU_UPDATE
      ELSE IF "mac_address" \in d.keys /\ "bytes_received" \in d.keys
        THEN EVENT_NETWORK_LIST_UPDATE
      ELSE IF "image" \in d.keys /\ "ports" \in d.keys
              /\ ("id" \in d.keys \/ "container_id" \in d.keys)
        THEN EVENT_CONTAINER_LIST_UPDATE
      ELSE IF "state" \in d.keys /\ "vcpus" \in d.keys
        THEN EVENT_VM_LIST_UPDATE
      ELSE IF "device" \in d.keys /\ "mount_point" \in d.keys
        THEN EVENT_DISK_LIST_UPDATE
      ELSE IF "name" \in d.keys /\ "path" \in d.keys /\ "size_bytes" \in d.keys
        THEN EVENT_SHARE_LIST_UPDATE
      ELSE "unknown"

(* identify_event_type(data): a list is replaced by its first element (an  *)
(* empty one is "empty_list"); what is then not a dict is "unknown"; a     *)
(* dict is tested against the signatures in the order of the code.         *)
identify_event_type(d0) ==
    IF isinstance_list(d0) /\ d0.elems = << >> THEN "empty_list"
    ELSE LET d == IF isinstance_list(d0) THEN d0.elems[1] ELSE d0 IN
      IF ~isinstance_dict(d) THEN "unknown"
      ELSE IF "hostname" \in d.keys /\ "cpu_usage_percent" \in d.keys
        THEN EVENT_SYSTEM_UPDATE
      ELSE IF "state" \in d.keys /\ "parity_check_status" \in d.keys
              /\ "num_disks" \in d.keys
        THEN EVENT_ARRAY_STATUS_UPDATE
      ELSE IF "connected" \in d.keys /\ "battery_charge_percent" \in d.keys
        THEN EVENT_UPS_STATUS_UPDATE
      ELSE IF "available" \in d.keys /\ "driver_version" \in d.keys
              /\ "utilization_gpu_percent" \in d.keys
        THEN EVENT_GPU_UPDATE
      ELSE IF "mac_address" \in d.keys /\ "bytes_received" \in d.keys
        THEN EVENT_NETWORK_LIST_UPDATE
      ELSE IF "image" \in d.keys /\ "ports" \in d.keys
              /\ ("id" \in d.keys \/ "container_id" \in d.keys)
        THEN EVENT_CONTAINER_LIST_UPDATE
      ELSE IF "state" \in d.keys /\ "vcpus" \in d.keys
        THEN EVENT_VM_LIST_UPDATE
      ELSE IF "device" \in d.keys /\ "mount_point" \in d.keys
        THEN EVENT_DISK_LIST_UPDATE
      ELSE IF "name" \in d.keys /\ "path" \in d.keys /\ "size_bytes" \in d.keys
        THEN EVENT_SHARE_LIST_UPDATE
      ELSE "unknown"

(* WebSocketClient.identify_event_type of test_multiple_connections.py     *)
(* (lines 105-151): the tests in the integration's order, the container    *)
(* test without the id / container_id condition.                           *)
WebSocketClient_identify_event_type(d0) ==
    IF isinstance_list(d0) /\ d0.elems = << >> THEN "empty_list"
    ELSE LET d == IF isinstance_list(d0) THEN d0.elems[1] ELSE d0 IN
      IF ~isinstance_dict(d) THEN "unknown"
      ELSE IF "hostname" \in d.keys /\ "cpu_usage_percent" \in d.keys
        THEN "system_update"
      ELSE IF "state" \in d.keys /\ "parity_check_status" \in d.keys
              /\ "num_disks" \in d.keys
        THEN "array_status_update"
      ELSE IF "connected" \in d.keys /\ "battery_charge_percent" \in d.keys
        THEN "ups_status_update"
      ELSE IF "available" \in d.keys /\ "driver_version" \in d.keys
              /\ "utilization_gpu_percent" \in d.keys
        THEN "gpu_update"
      ELSE IF "mac_address" \in d.keys /\ "bytes_received" \in d.keys
        THEN "network_list_update"
      ELSE IF "image" \in d.keys /\ "ports" \in d.keys
        THEN "container_list_update"
      ELSE IF "state" \in d.keys /\ "vcpus" \in d.keys
        THEN "vm_list_update"
      ELSE IF "device" \in d.keys /\ "mount_point" \in d.keys
        THEN "disk_list_update"
      ELSE IF "name" \in d.keys /\ "path" \in d.keys /\ "size_bytes" \in d.keys
        THEN "share_list_update"
      ELSE "unknown"

(* identify_event_type of tests/test_websocket.py (lines 33-58): no list   *)
(* handling, and an order of tests of its own.                             *)
test_websocket_identify_event_type(d) ==
    IF ~isinstance_dict(d) THEN "unknown"
    ELSE IF "hostname" \in d.keys /\ "cpu_usage_percent" \in d.keys
      THEN "system_update"
    ELSE IF "state" \in d.keys /\ "parity_check_status" \in d.keys
            /\ "num_disks" \in d.keys
      THEN "array_status_update"
    ELSE IF "device" \in d.keys /\ "mount_point" \in d.keys
      THEN "disk_list_update"
    ELSE IF "name" \in d.keys /\ "path" \in d.keys /\ "size_bytes" \in d.keys
      THEN "share_list_update"
    ELSE IF "image" \in d.keys /\ "ports" \in d.keys
            /\ ("id" \in d.keys \/ "container_id" \in d.keys)
      THEN "container_list_update"
    ELSE IF ("vm_name" \in d.keys \/ "name" \in d.keys)
            /\ "state" \in d.keys /\ "vcpus" \in d.keys
      THEN "vm_list_update"
    ELSE IF "connected" \in d.keys /\ "battery_charge_percent" \in d.keys
      THEN "ups_status_update"
    ELSE IF "available" \in d.keys /\ "driver_version" \in d.keys
            /\ "utilization_gpu_percent" \in d.keys
      THEN "gpu_update"
    ELSE IF "mac_address" \in d.keys /\ "bytes_received" \in d.keys
      THEN "network_list_update"
    ELSE "unknown"

(* The list handling of test_websocket_connection (lines 130-134): the     *)
(* first element of a list that is not empty is classified, else the       *)
(* payload itself.                                                         *)
test_websocket_connection_event_type(event_data) ==
    IF isinstance_list(event_data) /\ Len(event_data.elems) > 0
    THEN test_websocket_identify_event_type(event_data.elems[1])
    ELSE test_websocket_identify_event_type(event_data)

-----------------------------------------------------------------------------
(* Inputs of the classifier.  Every group of keys one test of the code     *)
(* reads, whole or with one key missing; a record payload carries the      *)
(* union of at most MaxParts groups plus any keys no test reads.           *)

SignatureKeys ==
    { {"hostname", "cpu_usage_percent"},
      {"state", "parity_check_status", "num_disks"},
      {"connected", "battery_charge_percent"},
      {"available", "driver_version", "utilization_gpu_percent"},
      {"mac_address", "bytes_received"},
      {"image", "ports", "id"},
      {"image", "ports", "container_id"},
      {"state", "vcpus"},
      {"device", "mount_point"},
      {"name", "path", "size_bytes"} }

ExtraKeys == {"timestamp", "temperature_celsius"}

KeyParts == SignatureKeys \cup { s \ {k} : s \in SignatureKeys, k \in UNION SignatureKeys }

RECURSIVE UnionsOf(_)
UnionsOf(n) ==
    IF n = 0 THEN { {} }
    ELSE LET U == UnionsOf(n - 1) IN U \cup { u \cup p : u \in U, p \in KeyParts }

KeySets == { u \cup e : u \in UnionsOf(MaxParts), e \in SUBSET ExtraKeys }

SystemDict == Dict({"hostname", "cpu_usage_percent", "uptime_seconds"})
DiskDict == Dict({"device", "mount_point", "name"})
ArrayVmDict == Dict({"state", "parity_check_status", "num_disks", "vcpus"})
OtherDict == Dict({"version"})

ListElements ==
    { SystemDict, DiskDict, ArrayVmDict, OtherDict, Scalar,
      List(<< >>), List(<< SystemDict >>) }

RECURSIVE SeqsUpTo(_, _)
SeqsUpTo(S, n) ==
    IF n = 0 THEN { << >> }
    ELSE LET R == SeqsUpTo(S, n - 1) IN
         R \cup { Append(r, x) : r \in { q \in R : Len(q) = n - 1 }, x \in S }

ClassifyInputs ==
    { Dict(K) : K \in KeySets } \cup { Scalar, Number, String, Boolean, None }
        \cup { List(q) : q \in SeqsUpTo(ListElements, MaxListLen) }

-----------------------------------------------------------------------------
(* Text frames.  A frame's text either fails to decode or decodes to a     *)
(* JSON document, which is an object or not, has a "data" member or not,   *)
(* and whose "data" member is a payload (None for JSON null).              *)

Frame(wellformed, isobj, hasdata, d) ==
    [wellformed |-> wellformed, isobj |-> isobj, hasdata |-> hasdata, data |-> d]

MalformedFrame == Frame(FALSE, FALSE, FALSE, None)
NonObjectFrame == Frame(TRUE, FALSE, FALSE, None)
NoDataFrame == Frame(TRUE, TRUE, FALSE, None)
NullDataFrame == Frame(TRUE, TRUE, TRUE, None)
DataFrame(p) == Frame(TRUE, TRUE, TRUE, p)
NoFrame == Frame(FALSE, FALSE, FALSE, [tag |-> "noframe", keys |-> {}, elems |-> << >>])

FramePayloads == { SystemDict, List(<< DiskDict >>), OtherDict, List(<< >>) }

Frames ==
    { MalformedFrame, NonObjectFrame, NoDataFrame, NullDataFrame }
        \cup { DataFrame(p) : p \in FramePayloads }

(* The frames the free transport sends: one that is delivered, one that is *)
(* classified unknown, one that does not decode.                           *)
FreeFrames == { DataFrame(SystemDict), DataFrame(OtherDict), MalformedFrame }

(* json.loads(data): JSONDecodeError on text that is not JSON, else the    *)
(* document.                                                               *)
json_loads(f) ==
    [error |-> ~f.wellformed, isobj |-> f.isobj, hasdata |-> f.hasdata, data |-> f.data]

(* message.get("data"): the member, None when it is missing.              *)
message_get_data(message) == IF message.hasdata THEN message.data ELSE None

(* What _handle_message does with a frame: whether it calls the callback,  *)
(* with what, and whether an exception leaves it for listen() to catch.    *)
NoCall == [call |-> FALSE, kind |-> "", data |-> None, raises |-> FALSE]
Raise == [call |-> FALSE, kind |-> "", data |-> None, raises |-> TRUE]

(* _handle_message that hands every decoded data member to the callback,   *)
(* whatever its classification.                                            *)
_handle_message_no_filter(f) ==
    LET message == json_loads(f) IN
    IF message.error THEN NoCall
    ELSE IF ~message.isobj THEN NoCall
    ELSE LET event_data == message_get_data(message) IN
         [call |-> TRUE, kind |-> identify_event_type(event_data),
          data |-> event_data, raises |-> FALSE]

(* _handle_message without its except clauses.                             *)
_handle_message_no_except(f) ==
    LET message == json_loads(f) IN
    IF message.error THEN Raise
    ELSE IF ~message.isobj THEN Raise
    ELSE LET event_data == message_get_data(message) IN
         IF event_data = None THEN NoCall
         ELSE LET et == identify_event_type(event_data) IN
              IF et = "unknown" THEN NoCall
              ELSE [call |-> TRUE, kind |-> et, data |-> event_data, raises |-> FALSE]

(* _handle_message(data), lines 170-196.  A decode error (line 193) and    *)
(* any other exception, such as .get on a document that is no object       *)
(* (line 195), are caught and logged: nothing is raised.                   *)
_handle_message(f) ==
    LET message == json_loads(f) IN
    IF message.error THEN NoCall
    ELSE IF ~message.isobj THEN NoCall
    ELSE LET event_data == message_get_data(message) IN
         IF event_data = None THEN NoCall
         ELSE LET et == identify_event_type(event_data) IN
              IF et = "unknown" THEN NoCall
              ELSE [call |-> TRUE, kind |-> et, data |-> event_data, raises |-> FALSE]

-----------------------------------------------------------------------------
(* The coordinator's cache and the delivery callback.                      *)

CacheKeys ==
    { KEY_SYSTEM, KEY_ARRAY, KEY_DISKS, KEY_CONTAINERS, KEY_VMS, KEY_UPS,
      KEY_GPU, KEY_NETWORK }

(* The cache a poll in which every fetch failed leaves: {} and [].         *)
EmptyCache ==
    [k \in CacheKeys |->
        IF k \in {KEY_SYSTEM, KEY_ARRAY, KEY_UPS} THEN Dict({}) ELSE List(<< >>)]

NoData == [loaded |-> FALSE, cache |-> EmptyCache]
PolledData == [loaded |-> TRUE, cache |-> EmptyCache]

(* What a resource fetch that succeeds returns (get_system_info, ...): a   *)
(* value of the resource's type that is not its empty default.             *)
Fetched(k) ==
    IF k \in {KEY_SYSTEM, KEY_ARRAY, KEY_UPS} THEN Dict({k})
    ELSE List(<< Dict({k}) >>)

(* The dict of lines 367-376, built from the results of the eight fetches, *)
(* of which those of F returned an exception, with a single default.       *)
build_data_one_default(F) ==
    [k \in CacheKeys |-> IF k \in F THEN Dict({}) ELSE Fetched(k)]

(* The dict of lines 367-376, built from the results of the eight fetches, *)
(* of which those of F returned an exception.                              *)
build_data(F) ==
    [k \in CacheKeys |-> IF k \in F THEN EmptyCache[k] ELSE Fetched(k)]

(* async_check_and_create_issues reads coordinator.data, the data of the   *)
(* earlier refresh: before the first successful refresh that is None, and  *)
(* coordinator.data.get raises AttributeError (repairs.py line 192).       *)
repairs_raises(dt) == ~dt.loaded

(* No refresh yet.                                                         *)
NoRefresh == [outcome |-> "none", failing |-> {}, built |-> EmptyCache, first |-> FALSE]

AsList(d) == IF isinstance_list(d) THEN d ELSE List(<< d >>)

(* Variant: the handler builds the cache anew around the key it writes.    *)
_handle_websocket_event_rebuilds(dt, et, d) ==
    IF ~dt.loaded THEN [data |-> dt, notified |-> FALSE]
    ELSE LET c == EmptyCache
             c2 == IF et = EVENT_SYSTEM_UPDATE THEN [c EXCEPT ![KEY_SYSTEM] = d]
                   ELSE IF et = EVENT_ARRAY_STATUS_UPDATE THEN [c EXCEPT ![KEY_ARRAY] = d]
                   ELSE IF et = EVENT_DISK_LIST_UPDATE THEN [c EXCEPT ![KEY_DISKS] = AsList(d)]
                   ELSE IF et = EVENT_UPS_STATUS_UPDATE THEN [c EXCEPT ![KEY_UPS] = d]
                   ELSE IF et = EVENT_GPU_UPDATE THEN [c EXCEPT ![KEY_GPU] = AsList(d)]
                   ELSE IF et = EVENT_NETWORK_LIST_UPDATE THEN [c EXCEPT ![KEY_NETWORK] = AsList(d)]
                   ELSE IF et = EVENT_CONTAINER_LIST_UPDATE THEN [c EXCEPT ![KEY_CONTAINERS] = AsList(d)]
                   ELSE IF et = EVENT_VM_LIST_UPDATE THEN [c EXCEPT ![KEY_VMS] = AsList(d)]
                   ELSE c
         IN [data |-> [dt EXCEPT !.cache = c2], notified |-> TRUE]

(* Variant: the test of line 394 left out, listeners notified in any case. *)
_handle_websocket_event_no_guard(dt, et, d) ==
    [data |-> dt, notified |-> TRUE]

(* _handle_websocket_event(event_type, data) on cache dt: the new cache    *)
(* and whether async_set_updated_data was called.                          *)
_handle_websocket_event(dt, et, d) ==
    IF ~dt.loaded THEN [data |-> dt, notified |-> FALSE]
    ELSE LET c == dt.cache
             c2 == IF et = EVENT_SYSTEM_UPDATE THEN [c EXCEPT ![KEY_SYSTEM] = d]
                   ELSE IF et = EVENT_ARRAY_STATUS_UPDATE THEN [c EXCEPT ![KEY_ARRAY] = d]
                   ELSE IF et = EVENT_DISK_LIST_UPDATE THEN [c EXCEPT ![KEY_DISKS] = AsList(d)]
                   ELSE IF et = EVENT_UPS_STATUS_UPDATE THEN [c EXCEPT ![KEY_UPS] = d]
                   ELSE IF et = EVENT_GPU_UPDATE THEN [c EXCEPT ![KEY_GPU] = AsList(d)]
                   ELSE IF et = EVENT_NETWORK_LIST_UPDATE THEN [c EXCEPT ![KEY_NETWORK] = AsList(d)]
                   ELSE IF et = EVENT_CONTAINER_LIST_UPDATE THEN [c EXCEPT ![KEY_CONTAINERS] = AsList(d)]
                   ELSE IF et = EVENT_VM_LIST_UPDATE THEN [c EXCEPT ![KEY_VMS] = AsList(d)]
                   ELSE c
         IN [data |-> [dt EXCEPT !.cache = c2], notified |-> TRUE]

-----------------------------------------------------------------------------
(* The client.  A client is the record of its four fields; the operators   *)
(* below are the synchronous stretches of listen() between await points.   *)

Tasks == 1 .. MaxTasks
Stops == 1 .. MaxStops

Finished == {"done", "cancelled"}
Waiting == {"connect", "receive", "sleep", "sleep_exc"}
Sleeping == {"sleep", "sleep_exc"}

Client(t) ==
    [ws |-> _ws[t], connected |-> _connected[t],
     count |-> _reconnect_count[t], stop |-> _stop_requested[t]]

NewClient == [ws |-> 0, connected |-> FALSE, count |-> 0, stop |-> FALSE]

(* is_connected, on the connections S.                                     *)
is_connected(c, S) == c.connected /\ c.ws # 0 /\ ~S[c.ws].closed

(* connect() after ws_connect returned connection k, the counter kept.     *)
connect_ok_keep_count(c, k) == [c EXCEPT !.ws = k, !.connected = TRUE]

(* connect() after ws_connect returned connection k (lines 117-123).       *)
connect_ok(c, k) == [c EXCEPT !.ws = k, !.connected = TRUE, !.count = 0]

(* connect() after ws_connect raised (lines 125-128).                      *)
connect_failed(c) == [c EXCEPT !.connected = FALSE]

min(a, b) == IF a <= b THEN a ELSE b

(* The delay computed with the index taken modulo the schedule's length.   *)
reconnect_delay_wraps(n) ==
    WEBSOCKET_RECONNECT_DELAY[(n % Len(WEBSOCKET_RECONNECT_DELAY)) + 1]

(* The delay _reconnect sleeps for when the counter is n (lines 211-212);  *)
(* the schedule is indexed from 0 in the code, from 1 here.                *)
reconnect_delay(n) ==
    LET delay_index == min(n, Len(WEBSOCKET_RECONNECT_DELAY) - 1)
    IN WEBSOCKET_RECONNECT_DELAY[delay_index + 1]

(* _reconnect with the ceiling test written  count > WEBSOCKET_MAX_RETRIES *)
_reconnect_off_by_one(c) ==
    LET c1 == [c EXCEPT !.connected = FALSE] IN
    IF c1.count > WEBSOCKET_MAX_RETRIES
    THEN [c |-> [c1 EXCEPT !.stop = TRUE], sleep |-> FALSE]
    ELSE [c |-> c1, sleep |-> TRUE]

(* _reconnect that returns at the ceiling without setting the stop flag.   *)
_reconnect_no_flag(c) ==
    LET c1 == [c EXCEPT !.connected = FALSE] IN
    IF c1.count >= WEBSOCKET_MAX_RETRIES
    THEN [c |-> c1, sleep |-> FALSE]
    ELSE [c |-> c1, sleep |-> TRUE]

(* _reconnect with the ceiling test written  count == WEBSOCKET_MAX_RETRIES *)
_reconnect_exact_ceiling(c) ==
    LET c1 == [c EXCEPT !.connected = FALSE] IN
    IF c1.count = WEBSOCKET_MAX_RETRIES
    THEN [c |-> [c1 EXCEPT !.stop = TRUE], sleep |-> FALSE]
    ELSE [c |-> c1, sleep |-> TRUE]

(* _reconnect up to its await (lines 200-221): give up at the ceiling,     *)
(* else go to sleep.  The increment of line 222 follows the sleep.         *)
_reconnect(c) ==
    LET c1 == [c EXCEPT !.connected = FALSE] IN
    IF c1.count >= WEBSOCKET_MAX_RETRIES
    THEN [c |-> [c1 EXCEPT !.stop = TRUE], sleep |-> FALSE]
    ELSE [c |-> c1, sleep |-> TRUE]

(* Variant: the increment of line 222 left out.                            *)
after_sleep_no_increment(c) == c

(* _reconnect after its sleep (line 222).                                  *)
after_sleep(c) == [c EXCEPT !.count = c.count + 1]

(* listen() from the top of its while loop to the next await: return when  *)
(* stop is requested, else connect unless connected, else receive.         *)
listen_loop(c, S) ==
    IF c.stop THEN [c |-> c, pc |-> "done"]
    ELSE IF ~is_connected(c, S) THEN [c |-> c, pc |-> "connect"]
    ELSE [c |-> c, pc |-> "receive"]

(* Variant: listen() returns when the receive loop ends without an         *)
(* exception, instead of reconnecting.                                     *)
listen_after_returns(c, S, exc) ==
    IF ~c.stop /\ exc
    THEN LET r == _reconnect(c) IN
         IF r.sleep THEN [c |-> r.c, pc |-> "sleep_exc"]
         ELSE listen_loop(r.c, S)
    ELSE [c |-> c, pc |-> "done"]

(* listen() once the receive loop has ended (lines 158-160, exc FALSE) or  *)
(* an exception was caught (lines 165-168, exc TRUE).                      *)
listen_after(c, S, exc) ==
    IF ~c.stop
    THEN LET r == _reconnect(c) IN
         IF r.sleep THEN [c |-> r.c, pc |-> IF exc THEN "sleep_exc" ELSE "sleep"]
         ELSE listen_loop(r.c, S)
    ELSE listen_loop(c, S)

(* disconnect(), the fields (lines 132-133).                               *)
disconnect_fields(c) == [c EXCEPT !.stop = TRUE, !.connected = FALSE]

SetClient(t, r) ==
    /\ _ws' = [_ws EXCEPT ![t] = r.c.ws]
    /\ _connected' = [_connected EXCEPT ![t] = r.c.connected]
    /\ _reconnect_count' = [_reconnect_count EXCEPT ![t] = r.c.count]
    /\ _stop_requested' = [_stop_requested EXCEPT ![t] = r.c.stop]
    /\ pc' = [pc EXCEPT ![t] = r.pc]
    /\ delay' = [delay EXCEPT ![t] = IF r.pc \in Sleeping
                                     THEN reconnect_delay(r.c.count) ELSE 0]

CloseSock(S, k) == IF k = 0 THEN S ELSE [S EXCEPT ![k].closed = TRUE]

SockOpen(t) == _ws[t] # 0 /\ ~socks[_ws[t]].closed

(* Variant: the test of line 135 is left out, close() is always called.    *)
disconnect_closes_unguarded(c, S) == TRUE

(* disconnect() calls close() on the socket if there is one and it is not  *)
(* closed (line 135).                                                      *)
disconnect_closes(c, S) == c.ws # 0 /\ ~S[c.ws].closed

(* disconnect() (lines 130-137) applied to a client c and the connections  *)
(* S: the client after it, the connections after it, the number of close() *)
(* calls it made, and whether it raised (close() called on None).          *)
disconnect(c, S) ==
    LET closes == disconnect_closes(c, S) IN
    [c |-> disconnect_fields(c),
     S |-> IF closes THEN CloseSock(S, c.ws) ELSE S,
     closes |-> IF closes THEN 1 ELSE 0,
     raises |-> closes /\ c.ws = 0]

-----------------------------------------------------------------------------
(* The transport.  Free: it answers anything, within the bounds.  Scripted *)
(* (a mock): it answers what the head of its script says.  The mock also   *)
(* says how the delivery callback behaves: it returns, or it raises.       *)

Event(ev, f) == [ev |-> ev, frame |-> f]

TransportDoes(ev, f) ==
    mock.scripted => (mock.todo # << >> /\ Head(mock.todo) = Event(ev, f))

TransportStep ==
    mock' = IF mock.scripted THEN [mock EXCEPT !.todo = Tail(@)] ELSE mock

-----------------------------------------------------------------------------
(* The steps of a listen() task.                                           *)

(* The task's first step: listen() runs to its first await.                *)
ListenStart(t) ==
    /\ pc[t] = "created" /\ ~cancel_req[t]
    /\ SetClient(t, listen_loop(Client(t), socks))
    /\ UNCHANGED << classifyVars, refresh, misuse, coordVars, cancel_req, socks, stop_pc, mock,
                    nFails, delivered, disconnected, recalled >>

(* ws_connect returns a connection: connect() returns and listen() enters  *)
(* the receive loop (line 148).                                            *)
ConnectOk(t) ==
    /\ pc[t] = "connect" /\ ~cancel_req[t]
    /\ TransportDoes("ok", NoFrame)
    /\ ~mock.scripted => Len(socks) < mock.socks
    /\ TransportStep
    /\ socks' = Append(socks, [owner |-> t, closed |-> FALSE])
    /\ SetClient(t, [c |-> connect_ok(Client(t), Len(socks) + 1), pc |-> "receive"])
    /\ UNCHANGED << classifyVars, refresh, misuse, coordVars, cancel_req, stop_pc, nFails,
                    delivered, disconnected, recalled >>

(* ws_connect raises: connect() re-raises, listen() catches (line 165).    *)
ConnectFail(t) ==
    /\ pc[t] = "connect" /\ ~cancel_req[t]
    /\ TransportDoes("fail", NoFrame)
    /\ ~mock.scripted => nFails < mock.fails
    /\ TransportStep
    /\ nFails' = nFails + 1
    /\ SetClient(t, listen_after(connect_failed(Client(t)), socks, TRUE))
    /\ UNCHANGED << classifyVars, refresh, misuse, coordVars, cancel_req, socks, stop_pc,
                    delivered, disconnected, recalled >>

(* Variant: _handle_message without the except clause of line 195.         *)
callback_escapes_uncaught(h, cb_raises) == h.call /\ cb_raises

(* Whether an exception of the callback leaves _handle_message: the call   *)
(* of line 191 is inside the try of line 172, and except Exception (lines  *)
(* 195-196) catches what it raises.                                        *)
callback_escapes(h, cb_raises) ==
    LET raised == h.call /\ cb_raises
        caught == raised
    IN raised /\ ~caught

(* Variant: the call is put in front of the calls made so far, as if an    *)
(* earlier frame were still waiting when a later one is handled.           *)
callback_invoked_late(calls, call) == << call >> \o calls

(* self.callback(event_type, event_data) (line 191), a plain call that     *)
(* _handle_message does not await: it has returned when _handle_message    *)
(* returns.  calls are the invocations so far, in order.                   *)
callback_invoked(calls, call) == Append(calls, call)

(* A TEXT frame arrives: _handle_message, and the callback if it is called *)
(* (lines 149-150); the callback raises if the mock says so.  An exception *)
(* out of _handle_message would be caught at line 165.                     *)
RecvText(t, f) ==
    /\ pc[t] = "receive" /\ ~cancel_req[t] /\ SockOpen(t)
    /\ TransportDoes("text", f)
    /\ ~mock.scripted => f \in FreeFrames
    /\ LET h == _handle_message(f)
           r == _handle_websocket_event(data, h.kind, h.data)
       IN /\ ~mock.scripted /\ h.call => Len(delivered) < MaxDelivered
          /\ delivered' = IF h.call
                          THEN callback_invoked(delivered, [task |-> t, kind |-> h.kind, data |-> h.data])
                          ELSE delivered
          /\ data' = IF h.call THEN r.data ELSE data
          /\ notifications' = IF h.call /\ r.notified THEN notifications + 1
                              ELSE notifications
          /\ IF h.raises \/ callback_escapes(h, mock.cb_raises)
             THEN SetClient(t, listen_after(Client(t), socks, TRUE))
             ELSE UNCHANGED << pc, clientVars, delay >>
    /\ TransportStep
    /\ UNCHANGED << classifyVars, refresh, misuse, enable_websocket, websocket_task,
                    cancel_req, socks, stop_pc, nFails, disconnected, recalled >>

(* The server closes: the iteration ends (the socket is closed by then).   *)
RecvClose(t) ==
    /\ pc[t] = "receive" /\ ~cancel_req[t] /\ SockOpen(t)
    /\ TransportDoes("close", NoFrame)
    /\ TransportStep
    /\ socks' = CloseSock(socks, _ws[t])
    /\ SetClient(t, listen_after(Client(t), socks', FALSE))
    /\ UNCHANGED << classifyVars, refresh, misuse, coordVars, cancel_req, stop_pc, nFails,
                    delivered, disconnected, recalled >>

(* An ERROR message: break (lines 151-153); the socket is closed by then.  *)
RecvError(t) ==
    /\ pc[t] = "receive" /\ ~cancel_req[t] /\ SockOpen(t)
    /\ TransportDoes("error", NoFrame)
    /\ TransportStep
    /\ socks' = CloseSock(socks, _ws[t])
    /\ SetClient(t, listen_after(Client(t), socks', FALSE))
    /\ UNCHANGED << classifyVars, refresh, misuse, coordVars, cancel_req, stop_pc, nFails,
                    delivered, disconnected, recalled >>

(* The iteration raises: caught at line 165.  Nothing in listen() closes   *)
(* the socket; the transport may or may not have.                          *)
RecvException(t) ==
    /\ pc[t] = "receive" /\ ~cancel_req[t] /\ SockOpen(t)
    /\ TransportDoes("exception", NoFrame)
    /\ TransportStep
    /\ \E closes \in BOOLEAN :
          socks' = IF closes THEN CloseSock(socks, _ws[t]) ELSE socks
    /\ SetClient(t, listen_after(Client(t), socks', TRUE))
    /\ UNCHANGED << classifyVars, refresh, misuse, coordVars, cancel_req, stop_pc, nFails,
                    delivered, disconnected, recalled >>

(* The receive of a socket that disconnect() closed returns: the iteration *)
(* ends.                                                                   *)
RecvClosed(t) ==
    /\ pc[t] = "receive" /\ ~cancel_req[t] /\ ~SockOpen(t)
    /\ SetClient(t, listen_after(Client(t), socks, FALSE))
    /\ UNCHANGED << classifyVars, refresh, misuse, coordVars, cancel_req, socks, stop_pc, mock,
                    nFails, delivered, disconnected, recalled >>

(* asyncio.sleep(delay) returns: the increment of line 222, and listen()   *)
(* goes round its loop.                                                    *)
SleepExpire(t) ==
    /\ pc[t] \in Sleeping /\ ~cancel_req[t]
    /\ SetClient(t, listen_loop(after_sleep(Client(t)), socks))
    /\ UNCHANGED << classifyVars, refresh, misuse, coordVars, cancel_req, socks, stop_pc, mock,
                    nFails, delivered, disconnected, recalled >>

(* A CancelledError that a backoff sleep swallows: listen() goes round its  *)
(* loop.                                                                   *)
cancelled_at_sleep_swallows(p) ==
    IF p \in {"created", "sleep_exc"} THEN "cancelled"
    ELSE IF p = "sleep" THEN "connect" ELSE "done"

(* Where a CancelledError thrown into the task at await point p leaves it: *)
(* caught at line 162 inside the try body; escaping from the except clause *)
(* of line 165 and from a task that never ran.                             *)
cancelled_at(p) == IF p \in {"created", "sleep_exc"} THEN "cancelled" ELSE "done"

(* The cancellation requested by Task.cancel() is delivered.               *)
CancelDeliver(t) ==
    /\ cancel_req[t] /\ pc[t] \in Waiting \cup {"created"}
    /\ pc' = [pc EXCEPT ![t] = cancelled_at(pc[t])]
    /\ cancel_req' = [cancel_req EXCEPT ![t] = FALSE]
    /\ delay' = [delay EXCEPT ![t] = 0]
    /\ UNCHANGED << classifyVars, refresh, misuse, coordVars, clientVars, socks, stop_pc, mock,
                    nFails, delivered, disconnected, recalled >>

(* disconnect() on the client of task t (lines 130-137).                   *)
Disconnect(t) ==
    /\ pc[t] # "none"
    /\ LET c == disconnect_fields(Client(t)) IN
       /\ _stop_requested' = [_stop_requested EXCEPT ![t] = c.stop]
       /\ _connected' = [_connected EXCEPT ![t] = c.connected]
    /\ socks' = disconnect(Client(t), socks).S
    /\ disconnected' = [disconnected EXCEPT ![t] = TRUE]
    /\ UNCHANGED << classifyVars, refresh, misuse, coordVars, pc, cancel_req, _ws,
                    _reconnect_count, stop_pc, mock, nFails, delivered, recalled, delay >>

-----------------------------------------------------------------------------
(* The coordinator's start and stop of the listen() task.                  *)

(* Task.done().                                                            *)
task_done(t) == pc[t] \in Finished

(* Variant: the test of line 424 for a running task is left out.           *)
start_creates_always(wt) == enable_websocket

(* async_start_websocket creates a client and a task unless the WebSocket  *)
(* is disabled (line 420) or a task is running (line 424).                 *)
start_creates(wt) == enable_websocket /\ ~(wt # 0 /\ ~task_done(wt))

FreeTasks == { t \in Tasks : pc[t] = "none" }

(* async_start_websocket (lines 418-443): no await in it, one step.        *)
StartWebsocket ==
    IF ~start_creates(websocket_task)
    THEN /\ misuse' = IF enable_websocket THEN misuse \cup {"start"} ELSE misuse
         /\ UNCHANGED progVars
    ELSE \E t \in FreeTasks :
        /\ \A u \in FreeTasks : t <= u
        /\ SetClient(t, [c |-> NewClient, pc |-> "created"])
        /\ websocket_task' = t
        /\ UNCHANGED << classifyVars, refresh, misuse, enable_websocket, data, notifications,
                        cancel_req, socks, stop_pc, mock, nFails, delivered, disconnected, recalled >>

(* async_stop_websocket up to its await (lines 447-450): cancel the task   *)
(* and wait for it; a task that is done already is not waited for.         *)
StopBegin(s) ==
    /\ stop_pc[s] = 0
    /\ IF websocket_task = 0
       THEN misuse' = misuse \cup {"stop"} /\ UNCHANGED progVars
       ELSE IF task_done(websocket_task)
       THEN /\ websocket_task' = 0
            /\ UNCHANGED << classifyVars, refresh, misuse, enable_websocket, data, notifications,
                            pc, cancel_req, clientVars, socks, stop_pc, mock,
                            nFails, delivered, disconnected, recalled, delay >>
       ELSE /\ cancel_req' = [cancel_req EXCEPT ![websocket_task] = TRUE]
            /\ stop_pc' = [stop_pc EXCEPT ![s] = websocket_task]
            /\ UNCHANGED << classifyVars, refresh, misuse, coordVars, pc, clientVars, socks,
                            mock, nFails, delivered, disconnected, recalled, delay >>

(* async_stop_websocket after its await (lines 451-454).                   *)
StopResume(s) ==
    /\ stop_pc[s] # 0 /\ task_done(stop_pc[s])
    /\ websocket_task' = 0
    /\ stop_pc' = [stop_pc EXCEPT ![s] = 0]
    /\ UNCHANGED << classifyVars, refresh, misuse, enable_websocket, data, notifications, pc,
                    cancel_req, clientVars, socks, mock, nFails, delivered, disconnected, recalled, delay >>

-----------------------------------------------------------------------------
(* Specification Spec: the coordinator, its clients, a free transport.     *)

FreeTransport(maxSocks, maxFails) ==
    [scripted |-> FALSE, cb_raises |-> FALSE, plan |-> << >>, todo |-> << >>,
     socks |-> maxSocks, fails |-> maxFails]

Script(p) ==
    [scripted |-> TRUE, cb_raises |-> FALSE, plan |-> p, todo |-> p,
     socks |-> 0, fails |-> 0]

(* The same script with a delivery callback that raises whenever it is     *)
(* invoked.                                                                *)
ScriptRaising(p) == [Script(p) EXCEPT !.cb_raises = TRUE]

InitFields ==
    /\ cancel_req = [t \in Tasks |-> FALSE]
    /\ _ws = [t \in Tasks |-> 0]
    /\ _connected = [t \in Tasks |-> FALSE]
    /\ _reconnect_count = [t \in Tasks |-> 0]
    /\ _stop_requested = [t \in Tasks |-> FALSE]
    /\ socks = << >>
    /\ stop_pc = [s \in Stops |-> 0]
    /\ nFails = 0
    /\ delivered = << >>
    /\ disconnected = [t \in Tasks |-> FALSE]
    /\ recalled = [t \in Tasks |-> FALSE]
    /\ delay = [t \in Tasks |-> 0]
    /\ refresh = NoRefresh
    /\ misuse = {}
    /\ notifications = 0

(* No client yet.                                                          *)
InitClients == InitFields /\ pc = [t \in Tasks |-> "none"]

(* One client constructed and its listen() task created.                   *)
InitOneTask == InitFields /\ pc = [t \in Tasks |-> IF t = 1 THEN "created" ELSE "none"]

Init ==
    /\ payload = Scalar /\ event_type = ""
    /\ enable_websocket \in BOOLEAN
    /\ websocket_task = 0
    /\ data = PolledData
    /\ mock = FreeTransport(MaxSocks, MaxFails)
    /\ InitClients

TaskStep(t) ==
    \/ ListenStart(t)
    \/ ConnectOk(t)
    \/ ConnectFail(t)
    \/ \E f \in Frames : RecvText(t, f)
    \/ RecvClose(t)
    \/ RecvError(t)
    \/ RecvException(t)
    \/ SleepExpire(t)

Next ==
    \/ StartWebsocket
    \/ \E s \in Stops : StopBegin(s)
    \/ \E s \in Stops : StopResume(s)
    \/ \E t \in Tasks : TaskStep(t)
    \/ \E t \in Tasks : CancelDeliver(t)

Spec == Init /\ [][Next]_vars

-----------------------------------------------------------------------------
(* Specification SpecClient: one client, created and its listen()          *)
(* scheduled, against a free transport, with disconnect() called by its    *)
(* holder at any await point of listen().  (The coordinator keeps no       *)
(* reference to its client and never calls disconnect().)                  *)

InitClient ==
    /\ payload = Scalar /\ event_type = ""
    /\ enable_websocket = TRUE
    /\ websocket_task = 1
    /\ data = PolledData
    /\ mock = FreeTransport(MaxClientSocks, MaxClientFails)
    /\ InitOneTask

NextClient ==
    \/ \E t \in Tasks : TaskStep(t)
    \/ \E t \in Tasks : RecvClosed(t)
    \/ \E t \in Tasks : Disconnect(t)

SpecClient == InitClient /\ [][NextClient]_vars

-----------------------------------------------------------------------------
(* Specification SpecMock: one client, created and its listen() scheduled, *)
(* against a mock transport that plays a script.                           *)

RECURSIVE Fails(_)
Fails(n) == IF n = 0 THEN << >> ELSE << Event("fail", NoFrame) >> \o Fails(n - 1)

EndEvents == {"close", "error", "exception"}

(* Connect fails n times, succeeds, frame f1 arrives, the connection ends  *)
(* in way w, the next connect succeeds, frame f2 arrives.                  *)
TwoConnections(n, f1, w, f2) ==
    Fails(n) \o << Event("ok", NoFrame), Event("text", f1), Event(w, NoFrame),
                   Event("ok", NoFrame), Event("text", f2) >>

(* Connect succeeds and frames f1, f2 arrive one after the other.           *)
OneConnection(f1, f2) ==
    << Event("ok", NoFrame), Event("text", f1), Event("text", f2) >>

(* A transport that never lets a connect succeed.                          *)
NeverConnects == Fails(WEBSOCKET_MAX_RETRIES + 2)

Scripts ==
    { TwoConnections(n, f1, w, f2) :
        n \in 0 .. MaxScriptFails, f1 \in Frames, w \in EndEvents, f2 \in Frames }
        \cup { OneConnection(f1, f2) : f1 \in Frames, f2 \in Frames }
        \cup { NeverConnects }

InitMock ==
    /\ payload = Scalar /\ event_type = ""
    /\ enable_websocket = TRUE
    /\ data \in {NoData, PolledData}
    /\ \E p \in Scripts : mock = Script(p)
    /\ websocket_task = 1
    /\ InitOneTask

NextMock == \E t \in Tasks : TaskStep(t)

SpecMock == InitMock /\ [][NextMock]_vars

-----------------------------------------------------------------------------
(* Specification SpecClassify: identify_event_type applied to one payload. *)

InitClassify ==
    /\ payload \in ClassifyInputs /\ event_type = ""
    /\ enable_websocket = TRUE
    /\ websocket_task = 0
    /\ data = NoData
    /\ mock = FreeTransport(0, 0)
    /\ InitClients

Classify ==
    /\ event_type = ""
    /\ event_type' = identify_event_type(payload)
    /\ UNCHANGED << payload, refresh, misuse, coordVars, pc, cancel_req, clientVars, socks,
                    stop_pc, mock, nFails, delivered, disconnected, recalled, delay >>

NextClassify == Classify

SpecClassify == InitClassify /\ [][NextClassify]_vars

-----------------------------------------------------------------------------
(* Specification SpecReuse: one client whose listen() task can be          *)
(* cancelled by the coordinator's stop, with disconnect() at any moment    *)
(* and, once listen() has ended, further calls of listen() and connect()   *)
(* on the same instance.                                                   *)

(* connect() without its test of the stop flag.                            *)
connect_entry_no_test(c) == "connect_call"

(* connect() up to its await (lines 112-117): return when stop is          *)
(* requested, else await ws_connect.                                       *)
connect_entry(c) == IF c.stop THEN "done" ELSE "connect_call"

(* listen() is called again on the client of task t, whose earlier         *)
(* listen() has ended.                                                     *)
ListenCall(t) ==
    /\ pc[t] \in Finished /\ \A s \in Stops : stop_pc[s] # t
    /\ SetClient(t, listen_loop(Client(t), socks))
    /\ recalled' = [recalled EXCEPT ![t] = TRUE]
    /\ UNCHANGED << classifyVars, refresh, misuse, coordVars, cancel_req, socks, stop_pc, mock,
                    nFails, delivered, disconnected >>

(* connect() is called on the client of task t, whose listen() has ended.  *)
ConnectCall(t) ==
    /\ pc[t] \in Finished /\ \A s \in Stops : stop_pc[s] # t
    /\ pc' = [pc EXCEPT ![t] = connect_entry(Client(t))]
    /\ recalled' = [recalled EXCEPT ![t] = TRUE]
    /\ UNCHANGED << classifyVars, refresh, misuse, coordVars, clientVars, cancel_req, socks,
                    stop_pc, mock, nFails, delivered, disconnected, delay >>

(* ws_connect returns a connection to the connect() call (lines 117-124).  *)
ConnectCallOk(t) ==
    /\ pc[t] = "connect_call"
    /\ Len(socks) < mock.socks
    /\ socks' = Append(socks, [owner |-> t, closed |-> FALSE])
    /\ SetClient(t, [c |-> connect_ok(Client(t), Len(socks) + 1), pc |-> "done"])
    /\ UNCHANGED << classifyVars, refresh, misuse, coordVars, cancel_req, stop_pc, mock, nFails,
                    delivered, disconnected, recalled >>

(* ws_connect raises to the connect() call (lines 125-128).                *)
ConnectCallFail(t) ==
    /\ pc[t] = "connect_call"
    /\ nFails < mock.fails
    /\ nFails' = nFails + 1
    /\ SetClient(t, [c |-> connect_failed(Client(t)), pc |-> "done"])
    /\ UNCHANGED << classifyVars, refresh, misuse, coordVars, cancel_req, socks, stop_pc, mock,
                    delivered, disconnected, recalled >>

InitReuse ==
    /\ payload = Scalar /\ event_type = ""
    /\ enable_websocket = TRUE
    /\ websocket_task = 1
    /\ data = PolledData
    /\ mock = FreeTransport(MaxReuseSocks, MaxReuseFails)
    /\ InitOneTask

NextReuse ==
    \/ \E t \in Tasks : TaskStep(t)
    \/ \E t \in Tasks : RecvClosed(t)
    \/ \E t \in Tasks : Disconnect(t)
    \/ \E s \in Stops : StopBegin(s)
    \/ \E s \in Stops : StopResume(s)
    \/ \E t \in Tasks : CancelDeliver(t)
    \/ \E t \in Tasks : ListenCall(t)
    \/ \E t \in Tasks : ConnectCall(t)
    \/ \E t \in Tasks : ConnectCallOk(t)
    \/ \E t \in Tasks : ConnectCallFail(t)

SpecReuse == InitReuse /\ [][NextReuse]_vars

-----------------------------------------------------------------------------
(* Specification SpecReconnect: listen() on a client whose retry counter   *)
(* has any value up to MaxCount, against a free transport: when the        *)
(* connect fails, _reconnect is applied to that counter.                   *)

InitReconnect ==
    /\ payload = Scalar /\ event_type = ""
    /\ enable_websocket = TRUE
    /\ websocket_task = 1
    /\ data = PolledData
    /\ mock = FreeTransport(MaxSocks, MaxReconnectFails)
    /\ cancel_req = [t \in Tasks |-> FALSE]
    /\ _ws = [t \in Tasks |-> 0]
    /\ _connected = [t \in Tasks |-> FALSE]
    /\ \E n \in 0 .. MaxCount :
          _reconnect_count = [t \in Tasks |-> IF t = 1 THEN n ELSE 0]
    /\ _stop_requested = [t \in Tasks |-> FALSE]
    /\ socks = << >>
    /\ stop_pc = [s \in Stops |-> 0]
    /\ nFails = 0
    /\ delivered = << >>
    /\ disconnected = [t \in Tasks |-> FALSE]
    /\ recalled = [t \in Tasks |-> FALSE]
    /\ delay = [t \in Tasks |-> 0]
    /\ refresh = NoRefresh
    /\ misuse = {}
    /\ notifications = 0
    /\ pc = [t \in Tasks |-> IF t = 1 THEN "created" ELSE "none"]

NextReconnect == \E t \in Tasks : TaskStep(t)

SpecReconnect == InitReconnect /\ [][NextReconnect]_vars

-----------------------------------------------------------------------------
(* Specification SpecPoll: the coordinator's poll refreshes, from before   *)
(* the first refresh or from the data of an earlier one, with any subset   *)
(* of the eight resource fetches failing.                                  *)

(* _async_update_data (lines 346-390) as DataUpdateCoordinator runs it:    *)
(* the fetches of F fail; the dict is built; async_check_and_create_issues *)
(* runs on the data of the earlier refresh; the dict is returned and       *)
(* becomes coordinator.data, or an exception is caught at line 388 and     *)
(* UpdateFailed is raised, which leaves coordinator.data as it was.        *)
UpdateData(F) ==
    LET built == build_data(F)
        raises == repairs_raises(data)
    IN /\ refresh' = [outcome |-> IF raises THEN "failed" ELSE "ok",
                      failing |-> F, built |-> built, first |-> ~data.loaded]
       /\ data' = IF raises THEN data ELSE [loaded |-> TRUE, cache |-> built]
       /\ UNCHANGED << classifyVars, misuse, enable_websocket, websocket_task,
                       notifications, pc, cancel_req, clientVars, socks, stop_pc,
                       mock, nFails, delivered, disconnected, recalled, delay >>

InitPoll ==
    /\ payload = Scalar /\ event_type = ""
    /\ enable_websocket = TRUE
    /\ websocket_task = 0
    /\ data \in {NoData, PolledData}
    /\ mock = FreeTransport(0, 0)
    /\ InitClients

NextPoll == \E F \in SUBSET CacheKeys : UpdateData(F)

SpecPoll == InitPoll /\ [][NextPoll]_vars

-----------------------------------------------------------------------------
(* Properties of the classifier (SpecClassify).                            *)

(* The signature table of the design, in priority order: each entry is an  *)
(* event kind and the alternative key sets that satisfy it.                *)
SignatureTable ==
    << [kind |-> EVENT_SYSTEM_UPDATE, alts |-> { {"hostname", "cpu_usage_percent"} }],
       [kind |-> EVENT_ARRAY_STATUS_UPDATE,
        alts |-> { {"state", "parity_check_status", "num_disks"} }],
       [kind |-> EVENT_UPS_STATUS_UPDATE, alts |-> { {"connected", "battery_charge_percent"} }],
       [kind |-> EVENT_GPU_UPDATE,
        alts |-> { {"available", "driver_version", "utilization_gpu_percent"} }],
       [kind |-> EVENT_NETWORK_LIST_UPDATE, alts |-> { {"mac_address", "bytes_received"} }],
       [kind |-> EVENT_CONTAINER_LIST_UPDATE,
        alts |-> { {"image", "ports", "id"}, {"image", "ports", "container_id"} }],
       [kind |-> EVENT_VM_LIST_UPDATE, alts |-> { {"state", "vcpus"} }],
       [kind |-> EVENT_DISK_LIST_UPDATE, alts |-> { {"device", "mount_point"} }],
       [kind |-> EVENT_SHARE_LIST_UPDATE, alts |-> { {"name", "path", "size_bytes"} }] >>

Satisfied(K) ==
    { i \in 1 .. Len(SignatureTable) : \E a \in SignatureTable[i].alts : a \subseteq K }

FirstSatisfied(K) ==
    IF Satisfied(K) = {} THEN "unknown"
    ELSE SignatureTable[CHOOSE i \in Satisfied(K) : \A j \in Satisfied(K) : i <= j].kind

(* C1: for a record payload identify_event_type returns the kind of the    *)
(* first signature of the table whose keys are all present, "unknown" when *)
(* there is none; array keys plus VM keys give array_status_update; and    *)
(* the result is that of the same record without the keys no signature     *)
(* reads.                                                                  *)
C1_FirstSignatureWins ==
    (event_type # "" /\ isinstance_dict(payload)) =>
        /\ event_type = FirstSatisfied(payload.keys)
        /\ ( /\ {"state", "parity_check_status", "num_disks", "vcpus"} \subseteq payload.keys
             /\ ~({"hostname", "cpu_usage_percent"} \subseteq payload.keys) )
           => event_type = EVENT_ARRAY_STATUS_UPDATE
        /\ event_type = FirstSatisfied(payload.keys \ ExtraKeys)

C1_Witness ==
    /\ event_type = EVENT_ARRAY_STATUS_UPDATE
    /\ isinstance_dict(payload)
    /\ {"state", "parity_check_status", "num_disks", "vcpus"} \subseteq payload.keys
    /\ payload.keys \cap ExtraKeys # {}

(* C13 as claimed: for a list payload identify_event_type returns          *)
(* "empty_list" when the list is empty, and otherwise what it returns for  *)
(* the first element, whatever that element is.                            *)
C13_Claimed ==
    (event_type # "" /\ isinstance_list(payload)) =>
        event_type = IF payload.elems = << >> THEN "empty_list"
                     ELSE identify_event_type(Head(payload.elems))

(* The closed set of event kinds.                                          *)
EventKinds ==
    { EVENT_SYSTEM_UPDATE, EVENT_ARRAY_STATUS_UPDATE, EVENT_DISK_LIST_UPDATE,
      EVENT_SHARE_LIST_UPDATE, EVENT_CONTAINER_LIST_UPDATE, EVENT_VM_LIST_UPDATE,
      EVENT_UPS_STATUS_UPDATE, EVENT_GPU_UPDATE, EVENT_NETWORK_LIST_UPDATE,
      "unknown", "empty_list" }

(* C14: identify_event_type can be applied to every payload, its result is *)
(* one of the event kinds, and it is "unknown" for every payload that is   *)
(* neither a list nor a dict.                                              *)
C14_Total ==
    /\ event_type = "" => ENABLED Classify
    /\ event_type # "" =>
          /\ event_type \in EventKinds
          /\ (~isinstance_list(payload) /\ ~isinstance_dict(payload))
                => event_type = "unknown"

C14_Witness ==
    /\ payload = String
    /\ event_type = "unknown"

-----------------------------------------------------------------------------
(* Properties of one client against the mock transport (SpecMock).         *)

(* The events of the script the transport has played so far.               *)
Played == SubSeq(mock.plan, 1, Len(mock.plan) - Len(mock.todo))

(* Connect attempts of the client: those the transport has answered and    *)
(* the one it has not answered yet.                                        *)
ConnectAttempts ==
    Cardinality({ i \in 1 .. Len(Played) : Played[i].ev \in {"ok", "fail"} })
        + (IF pc[1] = "connect" THEN 1 ELSE 0)

EveryConnectFails == mock.scripted /\ mock.plan = NeverConnects

(* C2, as amended: when every connect attempt fails, listen() makes        *)
(* WEBSOCKET_MAX_RETRIES + 1 connect attempts (the first and ten retries); *)
(* it then returns with the stop flag set, and never makes another.        *)
C2_AttemptsUntilStopped ==
    EveryConnectFails =>
        /\ ConnectAttempts <= WEBSOCKET_MAX_RETRIES + 1
        /\ pc[1] = "done" => (ConnectAttempts = WEBSOCKET_MAX_RETRIES + 1 /\ _stop_requested[1])
        /\ (ConnectAttempts = WEBSOCKET_MAX_RETRIES + 1 /\ pc[1] # "connect") => pc[1] = "done"

C2_Witness ==
    /\ EveryConnectFails
    /\ pc[1] = "done"
    /\ ConnectAttempts = WEBSOCKET_MAX_RETRIES + 1

(* C2 as claimed: the client stops after exactly WEBSOCKET_MAX_RETRIES     *)
(* connect attempts.                                                       *)
C2_Claimed ==
    (EveryConnectFails /\ pc[1] = "done") => ConnectAttempts = WEBSOCKET_MAX_RETRIES

(* The kind _handle_message's classification gives a text frame: that of   *)
(* its data member, if it decodes to an object with one.                   *)
FrameKind(f) ==
    IF f.wellformed /\ f.isobj /\ f.hasdata /\ f.data # None
    THEN identify_event_type(f.data) ELSE "unknown"

FramesOfKind(k) == { f \in Frames : FrameKind(f) = k }

(* C3: connect fails twice and then succeeds, a system_update frame f1     *)
(* arrives, the connection ends, the next connect succeeds and a           *)
(* disk_list_update frame f2 arrives.  The callback is invoked with        *)
(* (system_update, f1's data) when f1 arrives, with (disk_list_update,     *)
(* f2's data) when f2 arrives and at no other time, and _reconnect_count   *)
(* is 0 right after each of the two successful connects.                   *)
C3_TwoFramesTwoCalls ==
    \A f1 \in FramesOfKind(EVENT_SYSTEM_UPDATE), f2 \in FramesOfKind(EVENT_DISK_LIST_UPDATE),
       w \in EndEvents :
        (mock.scripted /\ mock.plan = TwoConnections(2, f1, w, f2)) =>
            LET call1 == [task |-> 1, kind |-> EVENT_SYSTEM_UPDATE, data |-> f1.data]
                call2 == [task |-> 1, kind |-> EVENT_DISK_LIST_UPDATE, data |-> f2.data]
            IN /\ Len(Played) < 4 => delivered = << >>
               /\ Len(Played) \in 4 .. 6 => delivered = << call1 >>
               /\ Len(Played) = 7 => delivered = << call1, call2 >>
               /\ Len(Played) \in {3, 6} => (pc[1] = "receive" /\ _reconnect_count[1] = 0)

C3_Witness ==
    /\ mock.scripted
    /\ mock.plan = TwoConnections(2, DataFrame(SystemDict), "close", DataFrame(List(<< DiskDict >>)))
    /\ mock.todo = << >>
    /\ Len(delivered) = 2
    /\ _reconnect_count[1] = 0

(* The callbacks the frames of a run of transport events lead to, in       *)
(* order: one for each text frame whose data is classified, none for any   *)
(* other event.                                                            *)
RECURSIVE Calls(_)
Calls(evs) ==
    IF evs = << >> THEN << >>
    ELSE LET e == Head(evs) IN
         (IF e.ev = "text" /\ FrameKind(e.frame) # "unknown"
          THEN << [task |-> 1, kind |-> FrameKind(e.frame), data |-> e.frame.data] >>
          ELSE << >>) \o Calls(Tail(evs))

(* C8: the callback has been invoked exactly once for each text frame      *)
(* received so far whose data is classified as a kind other than           *)
(* "unknown", in order, with that kind and that data; no frame classified  *)
(* "unknown", and no connect failure, closure or transport error, has led  *)
(* to an invocation.                                                       *)
C8_OneCallPerClassifiedFrame == mock.scripted => delivered = Calls(Played)

C8_Witness ==
    /\ mock.scripted
    /\ mock.plan = TwoConnections(1, DataFrame(OtherDict), "error", DataFrame(SystemDict))
    /\ mock.todo = << >>
    /\ delivered = << [task |-> 1, kind |-> EVENT_SYSTEM_UPDATE, data |-> SystemDict] >>

(* Text frames that do not decode, or decode to something without a data   *)
(* member.                                                                 *)
SkippedFrames == { MalformedFrame, NoDataFrame, NonObjectFrame }

(* C9: the step that receives a text frame that does not decode, or has no *)
(* data member, invokes no callback, leaves the connection open and the    *)
(* task in the receive loop, and changes no field of the client            *)
(* (_reconnect_count included) and nothing of the coordinator.             *)
C9_SkippedWithoutEffect ==
    [][\A f \in SkippedFrames :
          (mock.scripted /\ mock.todo # << >> /\ Head(mock.todo) = Event("text", f)) =>
              /\ mock'.todo = Tail(mock.todo)
              /\ delivered' = delivered
              /\ pc'[1] = "receive" /\ SockOpen(1)'
              /\ UNCHANGED << clientVars, socks, coordVars >>]_vars

(* A frame was skipped and the next frame was received and delivered on    *)
(* the same connection.                                                    *)
C9_Witness ==
    /\ mock.scripted
    /\ mock.plan = OneConnection(MalformedFrame, DataFrame(SystemDict))
    /\ mock.todo = << >>
    /\ delivered = << [task |-> 1, kind |-> EVENT_SYSTEM_UPDATE, data |-> SystemDict] >>
    /\ Len(socks) = 1 /\ SockOpen(1) /\ _reconnect_count[1] = 0

-----------------------------------------------------------------------------
(* Properties of the coordinator's start and stop (Spec, SpecScheduled).   *)

(* A step in which async_stop_websocket, having cancelled task t (or found *)
(* it finished), returns.                                                  *)
StopReturns(t) ==
    \/ \E s \in Stops : stop_pc[s] = t /\ stop_pc'[s] = 0
    \/ websocket_task = t /\ websocket_task' = 0 /\ stop_pc' = stop_pc

OpenSocks(t) == { k \in 1 .. Len(socks) : socks[k].owner = t /\ ~socks[k].closed }

(* C4 as claimed: when async_stop_websocket returns, the listen task has   *)
(* terminated, the client's stop flag is set and no connection the client  *)
(* opened is open.                                                         *)
C4_Claimed ==
    [][\A t \in Tasks :
          StopReturns(t) =>
              /\ pc'[t] \in Finished
              /\ _stop_requested'[t]
              /\ OpenSocks(t)' = {}]_vars

(* Specification SpecScheduled: a coordinator whose async_start_websocket  *)
(* has created the listen() task, async_stop_websocket called at any       *)
(* moment, and the event loop's scheduling: a task whose cancellation was  *)
(* requested is run, and so is a coroutine whose awaited task is done.     *)
InitStarted ==
    /\ payload = Scalar /\ event_type = ""
    /\ enable_websocket = TRUE
    /\ websocket_task = 1
    /\ data = PolledData
    /\ mock = FreeTransport(MaxSocks, MaxFails)
    /\ InitOneTask

NextStarted ==
    \/ \E s \in Stops : StopBegin(s)
    \/ \E s \in Stops : StopResume(s)
    \/ \E t \in Tasks : TaskStep(t)
    \/ \E t \in Tasks : CancelDeliver(t)

SpecScheduled ==
    /\ InitStarted /\ [][NextStarted]_vars
    /\ \A t \in Tasks : WF_vars(CancelDeliver(t))
    /\ \A s \in Stops : WF_vars(StopResume(s))

(* C6: when async_stop_websocket has cancelled a task that is in a backoff *)
(* sleep (entered after a closure or after an exception), the task's next  *)
(* step terminates it, with _reconnect_count as it was; a terminated task  *)
(* takes no further step, so makes no connect attempt; and the task does   *)
(* terminate and async_stop_websocket does return.                         *)
C6_StopDuringSleep ==
    /\ [][\A t \in Tasks :
             /\ (cancel_req[t] /\ pc[t] \in Sleeping) =>
                   /\ pc'[t] \in {pc[t]} \cup Finished
                   /\ _reconnect_count'[t] = _reconnect_count[t]
             /\ pc[t] \in Finished =>
                   /\ pc'[t] = pc[t]
                   /\ _reconnect_count'[t] = _reconnect_count[t]
                   /\ OpenSocks(t)' \subseteq OpenSocks(t)]_vars
    /\ \A t \in Tasks, s \in Stops :
          (cancel_req[t] /\ pc[t] \in Sleeping /\ stop_pc[s] = t)
              ~> (pc[t] \in Finished /\ stop_pc[s] = 0)

C6_Witness ==
    \E t \in Tasks, s \in Stops :
        /\ pc[t] = "cancelled" /\ stop_pc[s] = t
        /\ nFails = 1 /\ _reconnect_count[t] = 0 /\ socks = << >>
        /\ \A u \in Tasks \ {t} : pc[u] = "none"

(* The listen tasks that are alive: created and not finished.              *)
Alive == { t \in Tasks : pc[t] \notin {"none"} \cup Finished }

(* C10 as claimed: at most one listen task is alive, and an alive task is  *)
(* the one websocket_task refers to.                                       *)
C10_Claimed ==
    /\ Cardinality(Alive) <= 1
    /\ \A t \in Alive : websocket_task = t

-----------------------------------------------------------------------------
(* Properties of disconnect() on a client whose listen() runs (SpecClient).*)

IsConnected(t) == is_connected(Client(t), socks)

(* C5 as claimed: once disconnect() has been called, is_connected is False *)
(* and the callback is not invoked.                                        *)
C5_Claimed ==
    [][\A t \in Tasks :
          /\ disconnected'[t] => ~IsConnected(t)'
          /\ disconnected[t] => delivered' = delivered]_vars

(* C7 as claimed: after disconnect() during a backoff sleep, listen() does *)
(* not wait for the timer to expire; after disconnect() during a receive   *)
(* (which closed the socket), it does not wait for a frame.                *)
C7_Claimed ==
    [][\A t \in Tasks :
          /\ (disconnected[t] /\ pc[t] \in Sleeping) => ~SleepExpire(t)
          /\ (disconnected[t] /\ pc[t] = "receive" /\ ~SockOpen(t)) =>
                ~\E f \in Frames : RecvText(t, f)]_vars

(* C11: a step in which listen() finds the retry ceiling reached (a        *)
(* connect fails with _reconnect_count at WEBSOCKET_MAX_RETRIES) ends      *)
(* listen() by a normal return, with the stop flag set, is_connected False *)
(* and the counter as it was; and once listen() has returned the task      *)
(* takes no step: no sleep, no connection opened, no connect failure.      *)
C11_ExhaustionIsTerminal ==
    [][\A t \in Tasks :
          /\ ( /\ _reconnect_count[t] >= WEBSOCKET_MAX_RETRIES
               /\ ~_stop_requested[t]
               /\ pc[t] = "connect" /\ nFails' # nFails )
             => /\ pc'[t] = "done"
                /\ _stop_requested'[t]
                /\ ~IsConnected(t)'
                /\ _reconnect_count'[t] = _reconnect_count[t]
          /\ pc[t] = "done"
             => /\ pc'[t] = "done"
                /\ Len(socks') = Len(socks) /\ nFails' = nFails
                /\ _reconnect_count'[t] = _reconnect_count[t]
                /\ ~IsConnected(t)']_vars

(* listen() has returned on exhaustion, after a connection that closed and *)
(* ten failed connects, with no disconnect().                              *)
C11_Witness ==
    /\ pc[1] = "done" /\ ~disconnected[1]
    /\ _stop_requested[1] /\ ~IsConnected(1)
    /\ _reconnect_count[1] = WEBSOCKET_MAX_RETRIES
    /\ Len(socks) = 1 /\ nFails = WEBSOCKET_MAX_RETRIES

-----------------------------------------------------------------------------
(* Properties of a client that is used again (SpecReuse).                  *)

-----------------------------------------------------------------------------
(* Properties of _reconnect (SpecReconnect).                               *)

(* The last entry of the schedule.                                         *)
LastDelay == WEBSOCKET_RECONNECT_DELAY[Len(WEBSOCKET_RECONNECT_DELAY)]

(* C15: a task in a backoff sleep entered with retry counter n sleeps for  *)
(* WEBSOCKET_RECONNECT_DELAY[min(n, len - 1)] (indices from 0): an entry   *)
(* of the schedule, not less than the delay of any smaller counter, and    *)
(* the last entry (60) when n is at or beyond the schedule's length.       *)
C15_DelayClamped ==
    \A t \in Tasks :
        pc[t] \in Sleeping =>
            LET n == _reconnect_count[t]
                len == Len(WEBSOCKET_RECONNECT_DELAY)
            IN /\ delay[t] = WEBSOCKET_RECONNECT_DELAY[(IF n < len - 1 THEN n ELSE len - 1) + 1]
               /\ \E i \in 1 .. len : delay[t] = WEBSOCKET_RECONNECT_DELAY[i]
               /\ \A k \in 0 .. n : reconnect_delay(k) <= delay[t]
               /\ n >= len => (delay[t] = LastDelay /\ delay[t] = 60)

(* A sleep entered with the counter beyond the schedule's length.          *)
C15_Witness ==
    /\ pc[1] = "sleep_exc"
    /\ _reconnect_count[1] = Len(WEBSOCKET_RECONNECT_DELAY) + 1
    /\ delay[1] = 60

(* C16: when a connect fails and _reconnect is called with the counter     *)
(* below WEBSOCKET_MAX_RETRIES, the task goes to sleep with the stop flag  *)
(* clear, and the step that ends the sleep increments the counter by one   *)
(* and leaves the flag clear; with the counter at or above the ceiling,    *)
(* the stop flag is set, the counter stays and there is no sleep:          *)
(* listen() returns.                                                       *)
C16_ExhaustedAtCeiling ==
    [][\A t \in Tasks :
          /\ (pc[t] = "connect" /\ nFails' # nFails) =>
                IF _reconnect_count[t] < WEBSOCKET_MAX_RETRIES
                THEN /\ pc'[t] \in Sleeping /\ delay'[t] > 0
                     /\ ~_stop_requested'[t]
                     /\ _reconnect_count'[t] = _reconnect_count[t]
                ELSE /\ pc'[t] = "done" /\ delay'[t] = 0
                     /\ _stop_requested'[t]
                     /\ _reconnect_count'[t] = _reconnect_count[t]
          /\ (pc[t] \in Sleeping /\ pc'[t] # pc[t]) =>
                /\ _reconnect_count[t] < WEBSOCKET_MAX_RETRIES
                /\ _reconnect_count'[t] = _reconnect_count[t] + 1
                /\ ~_stop_requested'[t]]_vars

(* _reconnect was applied to a counter above the ceiling.                  *)
C16_Witness ==
    /\ pc[1] = "done" /\ _stop_requested[1]
    /\ _reconnect_count[1] = WEBSOCKET_MAX_RETRIES + 1
    /\ nFails = 1 /\ socks = << >>

-----------------------------------------------------------------------------
(* Properties of the poll refresh (SpecPoll).                              *)

(* C17: in a refresh in which the fetches of the set F fail, the dict      *)
(* built has the empty default at every key of F ({} for system, array,    *)
(* ups; [] for the others) and the fetched value at every other key; a     *)
(* refresh that succeeds makes that dict the coordinator's data.           *)
C17_FailuresAreIsolated ==
    refresh.outcome # "none" =>
        /\ \A k \in CacheKeys :
              refresh.built[k] =
                  IF k \in refresh.failing
                  THEN (IF k \in {KEY_SYSTEM, KEY_ARRAY, KEY_UPS} THEN Dict({}) ELSE List(<< >>))
                  ELSE Fetched(k)
        /\ refresh.outcome = "ok" => (data.loaded /\ data.cache = refresh.built)

(* A refresh in which the disks and ups fetches failed and the rest        *)
(* succeeded has become the coordinator's data.                            *)
C17_Witness ==
    /\ refresh.outcome = "ok"
    /\ refresh.failing = {KEY_DISKS, KEY_UPS}
    /\ data.cache[KEY_DISKS] = List(<< >>) /\ data.cache[KEY_UPS] = Dict({})
    /\ data.cache[KEY_SYSTEM] = Fetched(KEY_SYSTEM)

(* C18 as claimed: a refresh is reported as failed only if all eight       *)
(* fetches failed; a refresh in which at least one fetch succeeded is      *)
(* reported as successful, the first refresh included.                     *)
C18_Claimed ==
    /\ refresh.outcome = "failed" => refresh.failing = CacheKeys
    /\ (refresh.outcome # "none" /\ refresh.failing # CacheKeys) => refresh.outcome = "ok"

-----------------------------------------------------------------------------
(* The coordinator holds a task that has not finished.                     *)
Running == websocket_task # 0 /\ ~task_done(websocket_task)

(* C19: caller misuse is a safe no-op.  A call of async_start_websocket    *)
(* while a listen task is running changes nothing of the program's state:  *)
(* the task, its client and the connections stay as they are and no task   *)
(* is created; a call of async_stop_websocket while the coordinator holds  *)
(* no task (never started, or stopped already) changes nothing either.     *)
(* Neither path of the code has a statement that can raise.                *)

C19_MisuseIsNoOp ==
    [][/\ (Running /\ StartWebsocket) => UNCHANGED progVars
       /\ (websocket_task = 0 /\ \E s \in Stops : StopBegin(s)) => UNCHANGED progVars
       /\ Running => \A t \in Tasks : pc[t] = "none" => pc'[t] = "none"]_vars

(* Both misuses have happened: a start while a task ran, a stop while the  *)
(* coordinator held no task.                                               *)
C19_Witness == misuse = {"start", "stop"}

-----------------------------------------------------------------------------
(* Specification SpecCalls: the coordinator with one caller, which calls   *)
(* async_start_websocket and async_stop_websocket in any order, each call  *)
(* after the one before has returned or while its stop is waiting.         *)

InitCalls ==
    /\ payload = Scalar /\ event_type = ""
    /\ enable_websocket = TRUE
    /\ websocket_task = 0
    /\ data = PolledData
    /\ mock = FreeTransport(MaxSocks, MaxFails)
    /\ InitClients

NextCalls ==
    \/ StartWebsocket
    \/ StopBegin(1)
    \/ StopResume(1)
    \/ \E t \in Tasks : TaskStep(t)
    \/ \E t \in Tasks : CancelDeliver(t)

SpecCalls == InitCalls /\ [][NextCalls]_vars

-----------------------------------------------------------------------------
(* C20: disconnect() is idempotent and safe in every state.  In every      *)
(* state a client can be in, with no connection ever opened, with an open  *)
(* one or with a closed one, disconnect() does not raise, a second call    *)
(* right after it does not raise either and leaves the client and the      *)
(* connections as the first call left them, and the two calls together     *)
(* call close() on the socket at most once.                                *)
C20_DisconnectIdempotent ==
    \A t \in Tasks : pc[t] # "none" =>
        LET once == disconnect(Client(t), socks)
            twice == disconnect(once.c, once.S)
        IN /\ ~once.raises /\ ~twice.raises
           /\ twice.c = once.c /\ twice.S = once.S
           /\ once.closes + twice.closes <= 1

(* disconnect() has been called on a client with a connection and has      *)
(* closed it, and the listen() task has ended: the state a second call     *)
(* finds.                                                                  *)
C20_Witness ==
    /\ disconnected[1] /\ _stop_requested[1] /\ ~_connected[1]
    /\ _ws[1] # 0 /\ socks[_ws[1]].closed
    /\ pc[1] = "done"

-----------------------------------------------------------------------------
(* C21: at every moment a client has at most one open WebSocket; listen()  *)
(* never starts a connect while an earlier connection of the same client   *)
(* is still open, whichever way that connection ended (server close, ERROR *)
(* frame, exception raised in the receive loop).                           *)
C21_Claimed ==
    \A t \in Tasks :
        /\ Cardinality(OpenSocks(t)) <= 1
        /\ pc[t] = "connect" => OpenSocks(t) = {}

-----------------------------------------------------------------------------
(* The call a classified text frame f leads to.                            *)
CallOf(f) == [task |-> 1, kind |-> FrameKind(f), data |-> f.data]

(* The transport's next event is the text frame f.                         *)
NextIsText(f) == mock.todo # << >> /\ Head(mock.todo) = Event("text", f)

(* C22: frames are delivered in arrival order with no buffering.  The step *)
(* in which a classified text frame is received is the step in which the   *)
(* callback is invoked for it, after all earlier invocations; no other     *)
(* step invokes the callback; so after every step the invocations are the  *)
(* classified frames received so far, in order, and no received frame is   *)
(* waiting to be delivered when the next one is received.                  *)
C22_InOrderNoBuffering ==
    [][mock.scripted =>
          /\ \A f \in Frames :
                (NextIsText(f) /\ mock'.todo = Tail(mock.todo)) =>
                    delivered' = IF FrameKind(f) # "unknown"
                                 THEN Append(delivered, CallOf(f))
                                 ELSE delivered
          /\ (\A f \in Frames : ~NextIsText(f)) => delivered' = delivered
          /\ Len(delivered') = Len(Calls(Played'))]_vars

(* Two classified frames of different kinds arrived on one connection and  *)
(* were delivered in that order.                                           *)
C22_Witness ==
    /\ mock.scripted
    /\ mock.plan = OneConnection(DataFrame(SystemDict), DataFrame(List(<< DiskDict >>)))
    /\ mock.todo = << >>
    /\ delivered = << CallOf(DataFrame(SystemDict)), CallOf(DataFrame(List(<< DiskDict >>))) >>

-----------------------------------------------------------------------------
(* Specification SpecClientTimed: SpecClient with the event loop's timers  *)
(* as fairness: an asyncio.sleep that is not cancelled returns.            *)
SpecClientTimed ==
    SpecClient /\ \A t \in Tasks : WF_vars(SleepExpire(t))

(* C23: whenever the connection ends while listening (the server closes,   *)
(* an ERROR frame arrives, or the receive loop raises) and stop has not    *)
(* been requested, listen() does not return: the client enters the backoff *)
(* sleep, and from there, unless it is stopped, it eventually makes        *)
(* another connect attempt.                                                *)
C23_ClosureLeadsToReconnect ==
    /\ [][\A t \in Tasks :
             (pc[t] = "receive" /\ pc'[t] # "receive" /\ ~_stop_requested[t]) =>
                 (pc'[t] \in Sleeping /\ ~_stop_requested'[t])]_vars
    /\ \A t \in Tasks :
          (pc[t] \in Sleeping /\ ~_stop_requested[t])
              ~> (pc[t] = "connect" \/ _stop_requested[t])

(* A connection ended, the backoff sleep completed and the client is       *)
(* connecting again, not stopped.                                          *)
C23_Witness ==
    /\ pc[1] = "connect" /\ ~_stop_requested[1]
    /\ Len(socks) = 1 /\ socks[1].closed
    /\ _reconnect_count[1] = 1 /\ nFails = 0

-----------------------------------------------------------------------------
(* The waits of a fresh client whose connects all fail, as the schedule    *)
(* and the ceiling give them: the n-th failure is followed by a sleep of   *)
(* BackoffWaits[n] seconds.                                                *)
BackoffWaits == << 1, 2, 4, 8, 16, 32, 60, 60, 60, 60 >>

(* C24: between a failed or ended connection and the next connect attempt  *)
(* there is exactly one backoff sleep.  Its duration is the schedule entry *)
(* for the counter held before the sleep; the counter is incremented by    *)
(* one when the sleep completes, and the connect follows at once.  Hence   *)
(* the consecutive connect failures of a fresh client wait 1, 2, 4, 8, 16, *)
(* 32, 60, 60, 60, 60 seconds in that order.                               *)
C24_OneSleepPerRetry ==
    /\ [][\A t \in Tasks :
             /\ (pc[t] \in {"connect", "receive"} /\ pc'[t] \notin {pc[t], "receive"}) =>
                    \/ /\ pc'[t] \in Sleeping
                       /\ _reconnect_count'[t] = _reconnect_count[t]
                       /\ delay'[t] = WEBSOCKET_RECONNECT_DELAY[
                              min(_reconnect_count[t], Len(WEBSOCKET_RECONNECT_DELAY) - 1) + 1]
                    \/ /\ pc'[t] = "done"
                       /\ _reconnect_count[t] >= WEBSOCKET_MAX_RETRIES
             /\ (pc[t] \in Sleeping /\ pc'[t] # pc[t]) =>
                    /\ pc'[t] = "connect"
                    /\ _reconnect_count'[t] = _reconnect_count[t] + 1]_vars
    /\ [](EveryConnectFails =>
            /\ nFails <= Len(BackoffWaits) + 1
            /\ pc[1] \in Sleeping =>
                  (nFails \in 1 .. Len(BackoffWaits) /\ delay[1] = BackoffWaits[nFails]))

(* The tenth consecutive failure of a fresh client is followed by the      *)
(* tenth sleep, of 60 seconds.                                             *)
C24_Witness ==
    /\ EveryConnectFails
    /\ pc[1] \in Sleeping /\ nFails = 10 /\ delay[1] = 60
    /\ _reconnect_count[1] = 9

-----------------------------------------------------------------------------
(* C25: the classifiers of the repository's test clients give every        *)
(* payload the kind the integration's identify_event_type gives it,        *)
(* records that satisfy several signatures included.                       *)
C25_Claimed ==
    event_type # "" =>
        /\ WebSocketClient_identify_event_type(payload) = event_type
        /\ test_websocket_connection_event_type(payload) = event_type

-----------------------------------------------------------------------------
(* Specification SpecCallback: SpecMock with a delivery callback that      *)
(* raises an exception every time it is invoked.                           *)
InitCallback ==
    /\ payload = Scalar /\ event_type = ""
    /\ enable_websocket = TRUE
    /\ data \in {NoData, PolledData}
    /\ \E p \in Scripts : mock = ScriptRaising(p)
    /\ websocket_task = 1
    /\ InitOneTask

SpecCallback == InitCallback /\ [][NextMock]_vars

(* C26: if the delivery callback raises while a frame is handled, the      *)
(* exception stays in _handle_message: the step that receives a classified *)
(* frame invokes the callback, leaves the connection open and the task in  *)
(* the receive loop, ready for the next frame, starts no reconnect and     *)
(* changes no field of the client, _reconnect_count included.              *)
C26_CallbackExceptionContained ==
    [][\A f \in Frames :
          (mock.cb_raises /\ FrameKind(f) # "unknown"
              /\ NextIsText(f) /\ mock'.todo = Tail(mock.todo)) =>
                /\ delivered' = Append(delivered, CallOf(f))
                /\ pc'[1] = "receive" /\ SockOpen(1)'
                /\ delay'[1] = 0
                /\ UNCHANGED << clientVars, socks >>]_vars

(* The callback raised for a first frame, and the second frame of the same *)
(* connection was received and handed to the callback as well.             *)
C26_Witness ==
    /\ mock.cb_raises
    /\ mock.plan = OneConnection(DataFrame(SystemDict), DataFrame(List(<< DiskDict >>)))
    /\ mock.todo = << >>
    /\ Len(delivered) = 2
    /\ pc[1] = "receive" /\ SockOpen(1) /\ Len(socks) = 1
    /\ _reconnect_count[1] = 0

-----------------------------------------------------------------------------
(* Specification SpecServerCloses: one client against a transport whose    *)
(* connects all succeed and whose connections end by the server closing    *)
(* them; disconnect() may be called at any await point of listen(); an     *)
(* asyncio.sleep that is not cancelled returns.                            *)
InitServerCloses ==
    /\ payload = Scalar /\ event_type = ""
    /\ enable_websocket = TRUE
    /\ websocket_task = 1
    /\ data = PolledData
    /\ mock = FreeTransport(MaxServerCloses, 0)
    /\ InitOneTask

NextServerCloses ==
    \E t \in Tasks :
        \/ ListenStart(t)
        \/ ConnectOk(t)
        \/ \E f \in Frames : RecvText(t, f)
        \/ RecvClose(t)
        \/ RecvClosed(t)
        \/ SleepExpire(t)
        \/ Disconnect(t)

SpecServerCloses ==
    /\ InitServerCloses /\ [][NextServerCloses]_vars
    /\ \A t \in Tasks : WF_vars(SleepExpire(t))

(* C27: the retry ceiling bounds consecutive connect failures only.  In a  *)
(* run where every connect succeeds and every connection is then closed by *)
(* the server, _reconnect_count never exceeds 1 and, until disconnect() is *)
(* called, the client is never stopped by exhaustion and listen() does not *)
(* return, however many connections there have been; after each closure    *)
(* it makes the next connect attempt.                                      *)
C27_CeilingCountsConsecutiveFailures ==
    /\ [](/\ _reconnect_count[1] <= 1
          /\ ~disconnected[1] => (~_stop_requested[1] /\ pc[1] \notin Finished))
    /\ (pc[1] \in Sleeping /\ ~disconnected[1])
          ~> (pc[1] = "connect" \/ disconnected[1])

(* More connections than the ceiling counts have been opened and closed    *)
(* by the server, and the client is connecting once more.                  *)
C27_Witness ==
    /\ Len(socks) = WEBSOCKET_MAX_RETRIES + 2
    /\ \A k \in 1 .. Len(socks) : socks[k].closed
    /\ pc[1] = "connect" /\ ~_stop_requested[1] /\ _reconnect_count[1] = 1

-----------------------------------------------------------------------------
(* Specification SpecEvents: the coordinator's delivery callback invoked   *)
(* as the client invokes it, with a payload and the kind the classifier    *)
(* gives it, on a coordinator without data, with the data of a poll whose  *)
(* fetches all failed, or with the data of a poll whose fetches succeeded. *)

(* One record and one list of one record for every signature, and the      *)
(* empty list.                                                             *)
EventPayloads ==
    { Dict(K) : K \in SignatureKeys } \cup { List(<< Dict(K) >>) : K \in SignatureKeys }
        \cup { List(<< >>) }

FetchedData == [loaded |-> TRUE, cache |-> build_data({})]

InitEvents ==
    /\ payload = Scalar /\ event_type = ""
    /\ enable_websocket = TRUE
    /\ websocket_task = 0
    /\ data \in {NoData, PolledData, FetchedData}
    /\ mock = FreeTransport(0, 0)
    /\ InitClients

(* self.callback(event_type, event_data) (line 191) with the coordinator's *)
(* _handle_websocket_event as callback (lines 392-416).                    *)
HandleEvent(d) ==
    LET et == identify_event_type(d)
        r == _handle_websocket_event(data, et, d)
    IN /\ et # "unknown"
       /\ Len(delivered) < MaxEvents
       /\ delivered' = callback_invoked(delivered, [task |-> 0, kind |-> et, data |-> d])
       /\ data' = r.data
       /\ notifications' = IF r.notified THEN notifications + 1 ELSE notifications
       /\ UNCHANGED << classifyVars, refresh, misuse, enable_websocket, websocket_task,
                       pc, cancel_req, clientVars, socks, stop_pc, mock, nFails,
                       disconnected, recalled, delay >>

NextEvents == \E d \in EventPayloads : HandleEvent(d)

SpecEvents == InitEvents /\ [][NextEvents]_vars

(* The cache key the handler writes for an event kind (lines 398-413);     *)
(* "" for the kinds it has no branch for.                                  *)
KeyOf(et) ==
    IF et = EVENT_SYSTEM_UPDATE THEN KEY_SYSTEM
    ELSE IF et = EVENT_ARRAY_STATUS_UPDATE THEN KEY_ARRAY
    ELSE IF et = EVENT_DISK_LIST_UPDATE THEN KEY_DISKS
    ELSE IF et = EVENT_UPS_STATUS_UPDATE THEN KEY_UPS
    ELSE IF et = EVENT_GPU_UPDATE THEN KEY_GPU
    ELSE IF et = EVENT_NETWORK_LIST_UPDATE THEN KEY_NETWORK
    ELSE IF et = EVENT_CONTAINER_LIST_UPDATE THEN KEY_CONTAINERS
    ELSE IF et = EVENT_VM_LIST_UPDATE THEN KEY_VMS
    ELSE ""

(* The call made in this step, when one is made.                           *)
Invoked == Len(delivered') = Len(delivered) + 1
LastCall == delivered'[Len(delivered')]

(* C28: when the coordinator has data, _handle_websocket_event for an      *)
(* event kind replaces that kind's cache key only (system, array, disks,   *)
(* ups, gpu, network, containers or vms) and leaves the other seven as     *)
(* they were; for share_list_update and empty_list it leaves every key as  *)
(* it was; in all these cases the listeners are notified.                  *)
C28_OnlyOwnKeyReplaced ==
    [][(Invoked /\ data.loaded) =>
          /\ \A k \in CacheKeys \ {KeyOf(LastCall.kind)} :
                data'.cache[k] = data.cache[k]
          /\ KeyOf(LastCall.kind) \in CacheKeys =>
                data'.cache[KeyOf(LastCall.kind)] \in {LastCall.data, List(<< LastCall.data >>)}
          /\ LastCall.kind \in {EVENT_SHARE_LIST_UPDATE, "empty_list"} =>
                data'.cache = data.cache
          /\ data'.loaded
          /\ notifications' = notifications + 1]_vars

(* A disk event and then a share event were handled on fetched data: the   *)
(* disks key holds the event's list, the seven other keys what the poll    *)
(* fetched, and the listeners were notified twice.                         *)
C28_Witness ==
    /\ data.loaded
    /\ Len(delivered) = 2
    /\ delivered[1].kind = EVENT_DISK_LIST_UPDATE
    /\ delivered[2].kind = EVENT_SHARE_LIST_UPDATE
    /\ data.cache[KEY_DISKS] = AsList(delivered[1].data)
    /\ \A k \in CacheKeys \ {KEY_DISKS} : data.cache[k] = Fetched(k)
    /\ notifications = 2

(* C29: while the coordinator holds no data (before the first successful   *)
(* poll), _handle_websocket_event drops every event: the data and its      *)
(* cache stay as they are and the listeners are not notified.              *)
C29_DroppedWithoutData ==
    [][(Invoked /\ ~data.loaded) =>
          (data' = data /\ notifications' = notifications)]_vars

(* Events of two kinds were handed to a coordinator without data.          *)
C29_Witness ==
    /\ ~data.loaded /\ data = NoData
    /\ Len(delivered) = 2
    /\ delivered[1].kind # delivered[2].kind
    /\ notifications = 0

-----------------------------------------------------------------------------
(* C30: in every reachable state of a client _reconnect_count is between 0 *)
(* and WEBSOCKET_MAX_RETRIES, and it changes only by being reset to 0 when *)
(* a connect succeeds or by being incremented by one when a backoff sleep  *)
(* has completed.                                                          *)
C30_CounterBounded ==
    /\ [](\A t \in Tasks : _reconnect_count[t] \in 0 .. WEBSOCKET_MAX_RETRIES)
    /\ [][\A t \in Tasks :
             _reconnect_count'[t] # _reconnect_count[t] =>
                 \/ /\ Len(socks') = Len(socks) + 1
                    /\ socks'[Len(socks')].owner = t /\ _ws'[t] = Len(socks')
                    /\ _reconnect_count'[t] = 0
                 \/ /\ pc[t] \in Sleeping /\ pc'[t] \notin Sleeping
                    /\ _reconnect_count'[t] = _reconnect_count[t] + 1]_vars

(* The counter has reached the ceiling: ten sleeps completed after ten     *)
(* consecutive connect failures, the eleventh attempt under way.           *)
C30_Witness ==
    /\ _reconnect_count[1] = WEBSOCKET_MAX_RETRIES
    /\ pc[1] = "connect" /\ nFails = WEBSOCKET_MAX_RETRIES

====
